---------------------------- MODULE Spec2Model ----------------------------
(***************************************************************************)
(* LifeProof AI: the summarizer Lambda (poc/lambda/summarizer/index.py)    *)
(* and the two Step Functions definitions that drive it                    *)
(* (poc/infrastructure/stack.py, poc/infrastructure/poc_stack.py).         *)
(*                                                                         *)
(* Strings the code slices are sequences of one-character strings.  A      *)
(* document body and a model response are kept as what the code looks at:  *)
(* lengths, blankness, decodability, and the token structure of the        *)
(* response (fences, whitespace, one JSON value or junk).                  *)
(***************************************************************************)
EXTENDS Integers, Sequences, FiniteSets, Bags, TLC

(***************************************************************************)
(* Bounds of the model.                                                    *)
(***************************************************************************)
\* number of documents handed to one state machine execution
NumItems == 2
\* text lengths tried on each side of a threshold of the Lambda
ProbeSpan == 6
\* number of items a batch has beyond the MaxConcurrency of its Map state
OverCeiling == 2
\* number of direct invocations of the Lambda (run_poc.py --direct)
MaxDirect == 2
\* number of storage / table writes that fail in one behaviour
MaxWriteFaults == 1

(***************************************************************************)
(* Program constants.                                                      *)
(***************************************************************************)
TOKEN_THRESHOLD == 8000
MaxInputChars == 150000
RawResponseCap == 1000
ErrorMessageCap == 500
CharsPerToken == 4

FAST_MODEL == "anthropic.claude-3-5-haiku-20241022-v1:0"
DEFAULT_MODEL == "anthropic.claude-3-5-sonnet-20241022-v2:0"
NoModel == ""

(***************************************************************************)
(* Character sequences.                                                    *)
(***************************************************************************)
Min(a, b) == IF a < b THEN a ELSE b

EndsWith(s, p) ==
    /\ Len(s) >= Len(p)
    /\ SubSeq(s, Len(s) - Len(p) + 1, Len(s)) = p

\* largest index of character c in s, 0 when c does not occur
LastIndexOf(s, c) ==
    LET hits == {k \in 1..Len(s) : s[k] = c}
    IN  IF hits = {} THEN 0 ELSE CHOOSE k \in hits : \A m \in hits : m <= k

\* key.split("/")[-1]
AfterLastSlash(s) == SubSeq(s, LastIndexOf(s, "/") + 1, Len(s))

\* filename.rsplit(".", 1)[0]
BeforeLastDot(s) ==
    IF LastIndexOf(s, ".") = 0 THEN s ELSE SubSeq(s, 1, LastIndexOf(s, ".") - 1)

BaseName(key) == BeforeLastDot(AfterLastSlash(key))

DotTxt == <<".", "t", "x", "t">>
DotPdf == <<".", "p", "d", "f">>
DotMd == <<".", "m", "d">>
UploadsPrefix == <<"u", "p", "l", "o", "a", "d", "s", "/">>
SummariesPrefix == <<"s", "u", "m", "m", "a", "r", "i", "e", "s", "/">>
FailedPrefix == <<"f", "a", "i", "l", "e", "d", "/">>
SummarySuffix ==
    <<"_", "s", "u", "m", "m", "a", "r", "y", ".", "j", "s", "o", "n">>
ErrorSuffix == <<"_", "e", "r", "r", "o", "r", ".", "j", "s", "o", "n">>

\* output_key of save_summary
SummaryKey(original_key) ==
    SummariesPrefix \o BaseName(original_key) \o SummarySuffix

\* output_key of save_failed_document
FailedKey(original_key) ==
    FailedPrefix \o BaseName(original_key) \o ErrorSuffix


(***************************************************************************)
(* Deployed configuration of the Lambda: its environment in each stack.    *)
(***************************************************************************)
\* MODEL_ID: unset in the full stack, pinned to Haiku in the POC stack
ModelIdOf(stack) == IF stack = "poc" THEN FAST_MODEL ELSE NoModel

\* TRACKING_TABLE is set by both stacks
TrackingTableOf(stack) == TRUE

(***************************************************************************)
(* Inputs of one invocation.                                               *)
(***************************************************************************)
\* event.get(a) or event.get(b): an absent field and an empty one are falsy
EventGet(event, f) == IF f \in DOMAIN event THEN event[f] ELSE <<>>

EventField(event, a, b) ==
    IF EventGet(event, a) # <<>> THEN EventGet(event, a) ELSE EventGet(event, b)

\* A stored body: len decodable characters, bad undecodable bytes, blank when
\* every decodable character is whitespace.
Body(len, bad, blank) == [len |-> len, bad |-> bad, blank |-> blank]

\* A token of a model response.
Tok(t, n, v) == [t |-> t, n |-> n, v |-> v]
NoValue == [type |-> "none"]
Fence == Tok("fence", 3, NoValue)
JsonWord == Tok("jsonword", 4, NoValue)
Ws == Tok("ws", 1, NoValue)
Junk(n) == Tok("junk", n, NoValue)
JsonValue(n, v) == Tok("value", n, v)
JsonObject(fields) == [type |-> "object", fields |-> fields]
JsonArray == [type |-> "array"]
\* a JSON number with a fraction, a Python float once parsed
JsonFloat == "<float>"

RECURSIVE Width(_)
Width(s) == IF s = <<>> THEN 0 ELSE Head(s).n + Width(Tail(s))

RECURSIVE LStrip(_)
LStrip(s) == IF s # <<>> /\ Head(s).t = "ws" THEN LStrip(Tail(s)) ELSE s

RECURSIVE RStrip(_)
RStrip(s) ==
    IF s # <<>> /\ s[Len(s)].t = "ws" THEN RStrip(SubSeq(s, 1, Len(s) - 1)) ELSE s

\* str.strip()
Strip(s) == RStrip(LStrip(s))

(***************************************************************************)
(* estimate_tokens, select_model                                           *)
(***************************************************************************)
estimate_tokens(len) == len \div CharsPerToken

\* the comparison with TOKEN_THRESHOLD made inclusive
select_model_inclusive(len, MODEL_ID) ==
    IF MODEL_ID # NoModel THEN MODEL_ID
    ELSE IF estimate_tokens(len) <= TOKEN_THRESHOLD THEN FAST_MODEL
    ELSE DEFAULT_MODEL

select_model(len, MODEL_ID) ==
    IF MODEL_ID # NoModel THEN MODEL_ID
    ELSE IF estimate_tokens(len) < TOKEN_THRESHOLD THEN FAST_MODEL
    ELSE DEFAULT_MODEL

(***************************************************************************)
(* extract_document: the text, or the exception it lets through.           *)
(***************************************************************************)
Raised(type, msg) == [exc |-> type, msg |-> msg]
NoExc == Raised("", 0)

extract_document(key, env) ==
    IF env.get # "ok" THEN [exc |-> Raised(env.get, env.msg), len |-> 0, blank |-> TRUE]
    ELSE IF EndsWith(key, DotTxt) /\ env.body.bad > 0
         THEN [exc |-> Raised("UnicodeDecodeError", 90), len |-> 0, blank |-> TRUE]
    ELSE [exc |-> NoExc, len |-> env.body.len,
          blank |-> env.body.blank \/ env.body.len = 0]

(***************************************************************************)
(* invoke_bedrock                                                          *)
(***************************************************************************)
TruncationMarkerLen == 30

\* length of the document text placed in the prompt
PromptTextLen(len) ==
    IF len > MaxInputChars
    THEN (MaxInputChars \div 2) + TruncationMarkerLen + (MaxInputChars \div 2)
    ELSE len

\* the three fence strips of lines 268-274, applied to the stripped response
StripJsonFence(s) ==
    IF Len(s) >= 2 /\ s[1].t = "fence" /\ s[2].t = "jsonword"
    THEN SubSeq(s, 3, Len(s)) ELSE s

StripOpenFence(s) ==
    IF s # <<>> /\ s[1].t = "fence" THEN Tail(s) ELSE s

StripCloseFence(s) ==
    IF s # <<>> /\ s[Len(s)].t = "fence" THEN SubSeq(s, 1, Len(s) - 1) ELSE s

Unfenced(raw) == StripCloseFence(StripOpenFence(StripJsonFence(Strip(raw))))

\* json.loads succeeds on exactly one JSON value
JsonLoads(s) == IF Len(s) = 1 /\ s[1].t = "value" THEN s[1].v ELSE NoValue

DegradedSummary(processing_id, summary_text, model_id) ==
    JsonObject([processing_id |-> processing_id,
                risk_level |-> "UNKNOWN",
                error |-> "Failed to parse AI response",
                raw_response_len |-> Min(Width(summary_text), RawResponseCap),
                model_used |-> model_id])

\* json.JSONDecodeError left to propagate like ClientError
invoke_bedrock_reraising(env, model_id, processing_id) ==
    IF env.bedrock # "ok"
    THEN [exc |-> Raised(env.bedrock, env.msg), value |-> NoValue]
    ELSE LET parsed == JsonLoads(Strip(Unfenced(env.raw)))
         IN  IF parsed = NoValue
             THEN [exc |-> Raised("JSONDecodeError", 60), value |-> NoValue]
             ELSE [exc |-> NoExc, value |-> parsed]

invoke_bedrock(env, model_id, processing_id) ==
    IF env.bedrock # "ok"
    THEN [exc |-> Raised(env.bedrock, env.msg), value |-> NoValue]
    ELSE LET summary_text == Unfenced(env.raw)
             parsed == JsonLoads(Strip(summary_text))
         IN  IF parsed = NoValue
             THEN [exc |-> NoExc,
                   value |-> DegradedSummary(processing_id, summary_text, model_id)]
             ELSE [exc |-> NoExc, value |-> parsed]

(***************************************************************************)
(* handler: what one invocation does, as a record.                         *)
(*   ret            "return" or "raise"                                    *)
(*   status         the status of the returned payload                     *)
(*   error_type     type(e).__name__ of the exception re-raised            *)
(*   get_calls, model_calls   calls of s3.get_object, bedrock.invoke_model *)
(*   summary_put, failed_put  the object each put_object stored, if any    *)
(*   row            the item table.put_item stored, if any                 *)
(*   write_faults   writes of this invocation that failed                  *)
(*   answers        what the environment answered to this invocation       *)
(***************************************************************************)
NoObject == [type |-> "none"]
NoRow == [status |-> "none"]

Field(fields, name, default) ==
    IF name \in DOMAIN fields THEN fields[name] ELSE default

\* summary["original_document"], summary["generated_at"] set on the parsed dict
StampedSummary(fields, original_key, now) ==
    [original_document |-> original_key, generated_at |-> now] @@ fields

\* error_info with the two fields save_failed_document adds
FailureRecord(processing_id, exc, bucket, key, now) ==
    [processing_id |-> processing_id,
     error_type |-> exc.exc,
     error_message_len |-> exc.msg,
     bucket |-> bucket,
     key |-> key,
     original_document |-> key,
     failed_at |-> now]

CompletedRow(key, now, processing_id, fields, model_id) ==
    [document_id |-> key,
     processing_timestamp |-> now,
     processing_id |-> processing_id,
     status |-> "COMPLETED",
     risk_level |-> Field(fields, "risk_level", "UNKNOWN"),
     model_used |-> model_id,
     summary_location |-> SummaryKey(key),
     confidence_score |-> Field(fields, "confidence_score", "UNKNOWN")]

\* the message stored whole, without the [:500] slice
FailedRowUnsliced(key, now, processing_id, exc) ==
    [document_id |-> key,
     processing_timestamp |-> now,
     processing_id |-> processing_id,
     status |-> "FAILED",
     error_message_len |-> exc.msg,
     risk_level |-> "ERROR"]

FailedRow(key, now, processing_id, exc) ==
    [document_id |-> key,
     processing_timestamp |-> now,
     processing_id |-> processing_id,
     status |-> "FAILED",
     error_message_len |-> Min(exc.msg, ErrorMessageCap),
     risk_level |-> "ERROR"]

\* the guard on TRACKING_TABLE inverted: a configured table is never written
update_tracking_table_skipped(record, env, stack) ==
    IF TrackingTableOf(stack) THEN NoRow
    ELSE IF ~env.put_item THEN NoRow
    ELSE record

\* update_tracking_table: the row stored, NoRow when the table is not
\* configured or put_item raises ClientError (logged, not re-raised)
update_tracking_table(record, env, stack) ==
    IF ~TrackingTableOf(stack) THEN NoRow
    ELSE IF ~env.put_item THEN NoRow
    ELSE record

Outcome(ret, status, error_type, key, processing_id, env) ==
    [ret |-> ret, status |-> status, error_type |-> error_type, key |-> key,
     processing_id |-> processing_id, answers |-> env,
     get_calls |-> 0, model_calls |-> 0,
     model_used |-> NoModel, risk_level |-> "", summary_put |-> NoObject,
     failed_put |-> NoObject, row |-> NoRow, write_faults |-> 0]

NoAnswers ==
    [get |-> "none", body |-> [len |-> 0, bad |-> 0, blank |-> TRUE],
     bedrock |-> "none", raw |-> << >>, msg |-> 0,
     put_summary |-> TRUE, put_failed |-> TRUE, put_item |-> TRUE]

NoInvocation == Outcome("none", "", "", <<>>, <<0, 0>>, NoAnswers)

Attempt(exc, model_calls, model_id, value) ==
    [exc |-> exc, model_calls |-> model_calls, model_id |-> model_id, value |-> value]

\* the empty-document check made only after the model has been called
TryBlockChecksEmptyLate(key, env, stack, processing_id) ==
    LET doc == extract_document(key, env)
        model_id == select_model(doc.len, ModelIdOf(stack))
        reply == invoke_bedrock(env, model_id, processing_id)
    IN  IF doc.exc # NoExc THEN Attempt(doc.exc, 0, NoModel, NoValue)
        ELSE IF reply.exc # NoExc THEN Attempt(reply.exc, 1, model_id, NoValue)
        ELSE IF doc.blank THEN Attempt(Raised("ValueError", 43), 1, model_id, NoValue)
        ELSE IF reply.value.type # "object"
        THEN Attempt(Raised("TypeError", 50), 1, model_id, reply.value)
        ELSE IF ~env.put_summary
        THEN Attempt(Raised("ClientError", env.msg), 1, model_id, reply.value)
        ELSE Attempt(NoExc, 1, model_id, reply.value)

\* the try block of lines 400-416, up to and including save_summary: the
\* exception it ends with (NoExc when none), the calls of bedrock.invoke_model
\* it made, the model selected and the summary parsed
TryBlock(key, env, stack, processing_id) ==
    LET doc == extract_document(key, env)
        model_id == select_model(doc.len, ModelIdOf(stack))
        reply == invoke_bedrock(env, model_id, processing_id)
    IN  IF doc.exc # NoExc THEN Attempt(doc.exc, 0, NoModel, NoValue)
        ELSE IF doc.blank THEN Attempt(Raised("ValueError", 43), 0, NoModel, NoValue)
        ELSE IF reply.exc # NoExc THEN Attempt(reply.exc, 1, model_id, NoValue)
        ELSE IF reply.value.type # "object"
        THEN Attempt(Raised("TypeError", 50), 1, model_id, reply.value)
        ELSE IF ~env.put_summary
        THEN Attempt(Raised("ClientError", env.msg), 1, model_id, reply.value)
        ELSE Attempt(NoExc, 1, model_id, reply.value)

\* the success path after save_summary, lines 418-438
Succeeded(key, env, stack, processing_id, try) ==
    LET now == processing_id
        fields == try.value.fields
    IN  [Outcome("return", "SUCCEEDED", "", key, processing_id, env)
           EXCEPT !.get_calls = 1,
                  !.model_calls = try.model_calls,
                  !.model_used = try.model_id,
                  !.risk_level = Field(fields, "risk_level", "UNKNOWN"),
                  !.summary_put = JsonObject(StampedSummary(fields, key, now)),
                  !.row = update_tracking_table(
                              CompletedRow(key, now, processing_id, fields,
                                           try.model_id),
                              env, stack),
                  !.write_faults = IF env.put_item THEN 0 ELSE 1]

\* the except block, lines 440-469
Failed(bucket, key, env, stack, processing_id, try) ==
    LET now == processing_id
        exc == try.exc
        summary_write_failed ==
            try.value # NoValue /\ try.value.type = "object" /\ ~env.put_summary
    IN  [Outcome("raise", "", exc.exc, key, processing_id, env)
           EXCEPT !.get_calls = 1,
                  !.model_calls = try.model_calls,
                  !.failed_put =
                      IF env.put_failed
                      THEN JsonObject(FailureRecord(processing_id, exc, bucket,
                                                    key, now))
                      ELSE NoObject,
                  !.row = update_tracking_table(
                              FailedRow(key, now, processing_id, exc), env, stack),
                  !.write_faults =
                      (IF env.put_item THEN 0 ELSE 1)
                      + (IF env.put_failed THEN 0 ELSE 1)
                      + (IF summary_write_failed THEN 1 ELSE 0)]

\* a failed put of the summary passed over: the invocation goes on to its
\* COMPLETED row and returns
ProcessDocumentUnsaved(bucket, key, env, stack, processing_id) ==
    LET try == TryBlock(key, env, stack, processing_id)
        unsaved == try.value # NoValue /\ try.value.type = "object"
                   /\ ~env.put_summary
    IN  IF unsaved
        THEN [Succeeded(key, env, stack, processing_id, try)
                EXCEPT !.summary_put = NoObject]
        ELSE IF try.exc # NoExc
        THEN Failed(bucket, key, env, stack, processing_id, try)
        ELSE Succeeded(key, env, stack, processing_id, try)

\* the try and except blocks of lines 400-469.  After save_summary the
\* COMPLETED record goes to table.put_item, whose serializer raises TypeError
\* on a Python float before anything is sent; update_tracking_table catches
\* ClientError only, so the TypeError reaches the except block with the
\* summary already stored.
ProcessDocument(bucket, key, env, stack, processing_id) ==
    LET try == TryBlock(key, env, stack, processing_id)
        record == CompletedRow(key, processing_id, processing_id,
                               try.value.fields, try.model_id)
        rejected == [try EXCEPT !.exc = Raised("TypeError", 62)]
    IN  IF try.exc # NoExc
        THEN Failed(bucket, key, env, stack, processing_id, try)
        ELSE IF JsonFloat \in {record.risk_level, record.confidence_score}
        THEN [Failed(bucket, key, env, stack, processing_id, rejected)
                EXCEPT !.summary_put =
                           JsonObject(StampedSummary(try.value.fields, key,
                                                     processing_id))]
        ELSE Succeeded(key, env, stack, processing_id, try)

\* an unsupported key answered like a missing one: FAILED, not SKIPPED
handler_unsupported_failed(event, env, stack, processing_id) ==
    LET bucket == EventField(event, "Bucket", "bucket")
        key == EventField(event, "Key", "key")
    IN  IF bucket = <<>> \/ key = <<>>
           \/ ~(EndsWith(key, DotTxt) \/ EndsWith(key, DotPdf))
        THEN Outcome("return", "FAILED", "", key, processing_id, env)
        ELSE ProcessDocument(bucket, key, env, stack, processing_id)

\* the check of the extension made before the check of the event's fields
handler_extension_first(event, env, stack, processing_id) ==
    LET bucket == EventField(event, "Bucket", "bucket")
        key == EventField(event, "Key", "key")
    IN  IF ~(EndsWith(key, DotTxt) \/ EndsWith(key, DotPdf))
        THEN Outcome("return", "SKIPPED", "", key, processing_id, env)
        ELSE IF bucket = <<>> \/ key = <<>>
        THEN Outcome("return", "FAILED", "", key, processing_id, env)
        ELSE ProcessDocument(bucket, key, env, stack, processing_id)

handler(event, env, stack, processing_id) ==
    LET bucket == EventField(event, "Bucket", "bucket")
        key == EventField(event, "Key", "key")
    IN  IF bucket = <<>> \/ key = <<>>
        THEN Outcome("return", "FAILED", "", key, processing_id, env)
        ELSE IF ~(EndsWith(key, DotTxt) \/ EndsWith(key, DotPdf))
        THEN Outcome("return", "SKIPPED", "", key, processing_id, env)
        ELSE ProcessDocument(bucket, key, env, stack, processing_id)

(***************************************************************************)
(* The Step Functions definitions, as data.                                *)
(***************************************************************************)
StatesALL == "States.ALL"

Retrier(errors, interval, attempts, num, den) ==
    [ErrorEquals |-> errors, IntervalSeconds |-> interval,
     MaxAttempts |-> attempts, BackoffNum |-> num, BackoffDen |-> den]

\* tier A with BackoffRate 1.0: every wait is the first interval
FullRetryFlatBackoff ==
    << Retrier({"ThrottlingException", "TooManyRequestsException", "States.Timeout"},
               2, 5, 1, 1),
       Retrier({StatesALL}, 5, 2, 3, 2) >>

\* tier B with MaxAttempts 1
FullRetryOneGeneralRetry ==
    << Retrier({"ThrottlingException", "TooManyRequestsException", "States.Timeout"},
               2, 5, 2, 1),
       Retrier({StatesALL}, 5, 1, 3, 2) >>

\* tier A with MaxAttempts 6
FullRetrySixThrottle ==
    << Retrier({"ThrottlingException", "TooManyRequestsException", "States.Timeout"},
               2, 6, 2, 1),
       Retrier({StatesALL}, 5, 2, 3, 2) >>

\* SummarizeDocument.Retry of the full stack
FullRetry ==
    << Retrier({"ThrottlingException", "TooManyRequestsException", "States.Timeout"},
               2, 5, 2, 1),
       Retrier({StatesALL}, 5, 2, 3, 2) >>

\* the task left without a Catch
FullCatchMissing == << >>

\* SummarizeDocument.Catch of the full stack
FullCatch == << [ErrorEquals |-> {StatesALL}, Next |-> "HandleFailedDocument"] >>

\* Summarize.Retry of the POC stack (BackoffRate left at its default, 2.0)
PocRetry == << Retrier({StatesALL}, 2, 2, 2, 1) >>

\* the POC task has no Catch
PocCatch == << >>

RetryOf(stack) == IF stack = "poc" THEN PocRetry ELSE FullRetry
CatchOf(stack) == IF stack = "poc" THEN PocCatch ELSE FullCatch

\* each Map state allowed one iteration more
MaxConcurrencyOneMore(stack) == IF stack = "poc" THEN 6 ELSE 51

\* MaxConcurrency of the Map state
MaxConcurrencyOf(stack) == IF stack = "poc" THEN 5 ELSE 50

Matches(entry, error) == error \in entry.ErrorEquals \/ StatesALL \in entry.ErrorEquals

\* index of the first entry of a Retry or Catch list that names the error, 0 if none
FirstMatch(entries, error) ==
    LET hits == {k \in 1..Len(entries) : Matches(entries[k], error)}
    IN  IF hits = {} THEN 0 ELSE CHOOSE k \in hits : \A m \in hits : k <= m

RECURSIVE Pow(_, _)
Pow(b, n) == IF n = 0 THEN 1 ELSE b * Pow(b, n - 1)

\* milliseconds waited before the retry that follows `done` earlier retries
RetryWaitMs(retrier, done) ==
    (retrier.IntervalSeconds * 1000 * Pow(retrier.BackoffNum, done))
        \div Pow(retrier.BackoffDen, done)

\* Result of the NoDocumentsFound Pass state
NoDocumentsResult ==
    [status |-> "NO_DOCUMENTS", message |-> "No documents found for processing"]

(***************************************************************************)
(* State.                                                                  *)
(***************************************************************************)
VARIABLES
    stack,       \* which deployment: "full" or "poc"
    summaries,   \* summary objects by key (SUMMARY_BUCKET)
    failed,      \* failure records by key (FAILED_BUCKET)
    auditLog,    \* the tracking table: a bag of (document_id, status) rows
    inv,         \* per slot, what its latest handler invocation did
    calls,       \* per slot, how many times the handler was invoked
    faults,      \* writes that have failed so far
    input,       \* full: the keys under uploads/; poc: the documents given
    exec,        \* the state machine execution: pc, status, output
    items,       \* the items the Map state iterates over
    iter,        \* per item, its iteration
    dlq,         \* messages in the dead-letter queue
    probe        \* a function of the Lambda applied on its own: inputs, result

vars == <<stack, summaries, failed, auditLog, inv, calls, faults,
          input, exec, items, iter, dlq, probe>>

storeVars == <<summaries, failed, auditLog, inv, calls, faults>>
sfnVars == <<input, exec, items, iter, dlq>>

\* slot 0 is the direct caller, slot i the i-th item of an execution
Slots == 0..NumItems
Direct == 0

(***************************************************************************)
(* What the environment can answer to one invocation.                      *)
(***************************************************************************)
Env(get, body, bedrock, raw, msg, writes) ==
    [get |-> get, body |-> body, bedrock |-> bedrock, raw |-> raw, msg |-> msg,
     put_summary |-> writes[1], put_failed |-> writes[2], put_item |-> writes[3]]

\* which of put_object(summary), put_object(failure), put_item succeed:
\* the writes an invocation that fails early can make, and those of one that
\* reaches save_summary
FailureWrites ==
    {<<TRUE, TRUE, TRUE>>, <<TRUE, FALSE, TRUE>>, <<TRUE, TRUE, FALSE>>,
     <<TRUE, FALSE, FALSE>>}

AllWritten == <<TRUE, TRUE, TRUE>>

SummaryWrites ==
    {<<TRUE, TRUE, TRUE>>, <<FALSE, TRUE, TRUE>>, <<TRUE, TRUE, FALSE>>}

GoodBody == Body(86, 0, FALSE)
EmptyBody == Body(0, 0, TRUE)
BlankBody == Body(3, 0, TRUE)
LongBody == Body(TOKEN_THRESHOLD * CharsPerToken, 0, FALSE)
HugeBody == Body(MaxInputChars + 1, 0, FALSE)
BadBytesBody == Body(86, 2, FALSE)

MediumSummary ==
    JsonObject([risk_level |-> "MEDIUM", confidence_score |-> "HIGH"])

PlainJson == << JsonValue(300, MediumSummary) >>
FencedJson == << Fence, JsonWord, Ws, JsonValue(300, MediumSummary), Ws, Fence >>
BareFencedJson == << Fence, Ws, JsonValue(300, MediumSummary), Ws, Fence, Ws >>
NotJson == << Junk(40) >>
LongFencedNotJson == << Fence, JsonWord, Ws, Junk(1500), Ws, Fence >>
ProseThenJson == << Junk(25), Ws, JsonValue(300, MediumSummary) >>
ArrayJson == << JsonValue(2, JsonArray) >>

\* answers met by a direct invocation
WorkerAnswers ==
    {Env("NoSuchKey", EmptyBody, "ok", PlainJson, 120, w) : w \in FailureWrites}
    \cup {Env("ok", b, "ok", PlainJson, 120, w) :
             b \in {EmptyBody, BlankBody, BadBytesBody}, w \in FailureWrites}
    \cup {Env("ok", GoodBody, "ThrottlingException", PlainJson, 120, w) :
             w \in FailureWrites}
    \cup {Env("ok", GoodBody, "ValidationException", PlainJson, 700, w) :
             w \in FailureWrites}
    \cup {Env("ok", GoodBody, "ok", r, 120, w) :
             r \in {PlainJson, FencedJson, BareFencedJson, NotJson,
                    LongFencedNotJson, ProseThenJson, ArrayJson},
             w \in SummaryWrites}
    \cup {Env("ok", b, "ok", r, 120, AllWritten) :
             b \in {LongBody, HugeBody}, r \in {PlainJson, NotJson}}

\* answers met by an invocation made by a state machine; the writes succeed

BatchAnswers ==
    {Env("NoSuchKey", EmptyBody, "ok", PlainJson, 120, AllWritten),
     Env("ok", EmptyBody, "ok", PlainJson, 120, AllWritten),
     Env("ok", GoodBody, "ThrottlingException", PlainJson, 120, AllWritten),
     Env("ok", GoodBody, "ok", PlainJson, 120, AllWritten),
     Env("ok", GoodBody, "ok", NotJson, 120, AllWritten)}

Doc1Txt == UploadsPrefix \o <<"d", "o", "c", "1">> \o DotTxt
Doc2Pdf == UploadsPrefix \o <<"d", "o", "c", "2">> \o DotPdf
NotesMd == UploadsPrefix \o <<"n", "o", "t", "e", "s">> \o DotMd
BucketName == <<"b">>

\* the event of the full stack's ItemSelector, and the one run_poc.py builds
UpperEvent(key) == [Bucket |-> BucketName, Key |-> key]
LowerEvent(key) == [bucket |-> BucketName, key |-> key]

DirectEvents ==
    {UpperEvent(Doc1Txt), LowerEvent(Doc1Txt), LowerEvent(Doc2Pdf),
     LowerEvent(NotesMd), [bucket |-> BucketName], [Key |-> Doc1Txt],
     [bucket |-> BucketName, key |-> <<>>]}

(***************************************************************************)
(* One invocation of the Lambda in a slot: the handler runs to its return  *)
(* or its raise, and its writes land in the stores.                        *)
(***************************************************************************)
Put(store, k, v) ==
    [x \in (DOMAIN store) \cup {k} |-> IF x = k THEN v ELSE store[x]]

AuditKey(row) == [document_id |-> row.document_id, status |-> row.status]

\* table.put_item: the full stack's table is keyed by (document_id,
\* processing_timestamp), and every invocation has a timestamp of its own, so
\* the item is added; the POC stack's table is keyed by document_id alone, so
\* the item replaces the one the table holds for that document
PutItem(table, row, stk) ==
    IF stk = "poc"
    THEN LET kept == {x \in DOMAIN table : x.document_id # row.document_id}
         IN  [x \in kept |-> table[x]] (+) SetToBag({row})
    ELSE table (+) SetToBag({row})

Invoke(slot, event, env) ==
    \E r \in {handler(event, env, stack, <<slot, calls[slot] + 1>>)} :
        /\ faults + r.write_faults <= MaxWriteFaults
        /\ faults' = faults + r.write_faults
        /\ inv' = [inv EXCEPT ![slot] = r]
        /\ calls' = [calls EXCEPT ![slot] = @ + 1]
        /\ summaries' = IF r.summary_put = NoObject THEN summaries
                        ELSE Put(summaries, SummaryKey(r.key), r.summary_put)
        /\ failed' = IF r.failed_put = NoObject THEN failed
                     ELSE Put(failed, FailedKey(r.key), r.failed_put)
        /\ auditLog' = IF r.row = NoRow THEN auditLog
                       ELSE PutItem(auditLog, AuditKey(r.row), stack)

\* the handler asks the environment nothing when it rejects the event at once
Accepted(event) ==
    LET bucket == EventField(event, "Bucket", "bucket")
        key == EventField(event, "Key", "key")
    IN  /\ bucket # <<>>
        /\ key # <<>>
        /\ EndsWith(key, DotTxt) \/ EndsWith(key, DotPdf)

AnswersTo(event, answers) ==
    IF Accepted(event) THEN answers ELSE {CHOOSE env \in answers : TRUE}

\* run_poc.py --direct: lambda_client.invoke on one document
DirectInvoke ==
    /\ calls[Direct] < MaxDirect
    /\ \E event \in DirectEvents :
          \E env \in AnswersTo(event, WorkerAnswers) : Invoke(Direct, event, env)
    /\ UNCHANGED <<stack, probe, sfnVars>>

NoOutput == [json |-> "none"]
NoProbe == [op |-> "none"]
IdleExec == [pc |-> "Idle", status |-> "NOT_STARTED", output |-> NoOutput]

InitStores ==
    /\ summaries = [k \in {} |-> NoObject]
    /\ failed = [k \in {} |-> NoObject]
    /\ auditLog = EmptyBag
    /\ inv = [s \in Slots |-> NoInvocation]
    /\ calls = [s \in Slots |-> 0]
    /\ faults = 0
    /\ dlq = {}

WorkerInit ==
    /\ stack \in {"full", "poc"}
    /\ InitStores
    /\ input = << >>
    /\ exec = IdleExec
    /\ items = << >>
    /\ iter = << >>
    /\ probe = NoProbe

WorkerNext == DirectInvoke

WorkerSpec == WorkerInit /\ [][WorkerNext]_vars


(***************************************************************************)
(* The state machines.                                                     *)
(***************************************************************************)
\* the subsequences of pool that keep at most n elements
RECURSIVE SubLists(_, _)
SubLists(pool, n) ==
    IF pool = << >> \/ n = 0 THEN {<< >>}
    ELSE SubLists(Tail(pool), n)
         \cup {<<Head(pool)>> \o rest : rest \in SubLists(Tail(pool), n - 1)}

\* keys that may lie under uploads/, in the order S3 lists them
KeyPool == <<Doc1Txt, Doc2Pdf, NotesMd>>

\* documents a caller may pass to the POC state machine
DocumentPool == <<LowerEvent(Doc1Txt), LowerEvent(Doc2Pdf), [bucket |-> BucketName]>>

TaskState == IF stack = "poc" THEN "Summarize" ELSE "SummarizeDocument"

JsonObj(fields) == [json |-> "object", fields |-> fields]
JsonArr(elems) == [json |-> "array", elems |-> elems]

NewIteration ==
    [pc |-> "Pending", retries |-> [k \in 1..Len(RetryOf(stack)) |-> 0],
     wait |-> 0, error |-> "", output |-> NoOutput]

Running(it) == it.pc \in {TaskState, "RetryWait", "HandleFailedDocument"}
Ended(it) == it.pc \in {"Succeeded", "Failed", "Aborted"}
InFlight == Cardinality({i \in DOMAIN iter : Running(iter[i])})

\* keys one call of listObjectsV2 returns when, as here, no MaxKeys is given
ListMaxKeys == 1000

\* ListDocumentsForProcessing: one call of s3:listObjectsV2 on the prefix
\* uploads/; its Contents holds the first keys under the prefix, and the
\* continuation token that comes with a truncated listing is not followed
ListDocumentsForProcessing ==
    /\ stack = "full"
    /\ exec.pc = "ListDocumentsForProcessing"
    /\ exec' = [exec EXCEPT !.pc = "CheckForDocuments"]
    /\ items' = [i \in 1..Min(Len(input), ListMaxKeys) |-> UpperEvent(input[i])]
    /\ UNCHANGED <<stack, probe, storeVars, input, iter, dlq>>

\* CheckForDocuments: Contents is present exactly when a key was listed
CheckForDocuments ==
    /\ exec.pc = "CheckForDocuments"
    /\ exec' = [exec EXCEPT !.pc = IF items # << >> THEN "ProcessDocumentsBatch"
                                   ELSE "NoDocumentsFound"]
    /\ UNCHANGED <<stack, probe, storeVars, input, items, iter, dlq>>

\* NoDocumentsFound: a Pass state that ends the execution
NoDocumentsFound ==
    /\ exec.pc = "NoDocumentsFound"
    /\ exec' = [pc |-> "End", status |-> "SUCCEEDED",
                output |-> JsonObj(NoDocumentsResult)]
    /\ UNCHANGED <<stack, probe, storeVars, input, items, iter, dlq>>

\* the Map state reads its items: ItemsPath, and ItemSelector in the full stack
MapStart ==
    /\ exec.pc = IF stack = "poc" THEN "ProcessDocuments" ELSE "ProcessDocumentsBatch"
    /\ exec' = [exec EXCEPT !.pc = "Iterating"]
    /\ items' = IF stack = "poc" THEN input ELSE items
    /\ iter' = [i \in 1..Len(items') |-> NewIteration]
    /\ UNCHANGED <<stack, probe, storeVars, input, dlq>>

\* an iteration starts while fewer than MaxConcurrency are running
StartIteration(i) ==
    /\ exec.pc = "Iterating"
    /\ iter[i].pc = "Pending"
    /\ InFlight < MaxConcurrencyOf(stack)
    /\ iter' = [iter EXCEPT ![i].pc = TaskState]
    /\ UNCHANGED <<stack, probe, storeVars, input, exec, items, dlq>>

\* the output of the task state when the Lambda returns
TaskOutput(event, r) ==
    LET payload == [status |-> r.status, key |-> r.key]
    IN  IF stack = "poc" THEN JsonObj(payload)
        ELSE JsonObj(event @@ [result |-> [Payload |-> payload]])

\* what the task state does with the outcome r of the invocation
AfterTask(it, event, r) ==
    LET error == r.error_type
        k == FirstMatch(RetryOf(stack), error)
        c == FirstMatch(CatchOf(stack), error)
    IN  IF r.ret = "return"
        THEN [it EXCEPT !.pc = "Succeeded", !.output = TaskOutput(event, r)]
        ELSE IF k > 0 /\ it.retries[k] < RetryOf(stack)[k].MaxAttempts
        THEN [it EXCEPT !.pc = "RetryWait",
                        !.retries[k] = @ + 1,
                        !.wait = RetryWaitMs(RetryOf(stack)[k], it.retries[k])]
        ELSE IF c > 0
        THEN [it EXCEPT !.pc = CatchOf(stack)[c].Next, !.error = error, !.wait = 0]
        ELSE [it EXCEPT !.pc = "Failed", !.error = error, !.wait = 0]

\* a failed iteration fails the Map state and with it the execution
StopOthers(its) ==
    [j \in DOMAIN its |-> IF Ended(its[j]) THEN its[j]
                          ELSE [its[j] EXCEPT !.pc = "Aborted", !.wait = 0]]

\* SummarizeDocument / Summarize: lambda:invoke, then Retry and Catch
SummarizeDocument(i) ==
    /\ exec.pc = "Iterating"
    /\ iter[i].pc = TaskState
    /\ \E env \in AnswersTo(items[i], BatchAnswers) : Invoke(i, items[i], env)
    /\ \E it \in {AfterTask(iter[i], items[i], inv'[i])} :
          IF it.pc = "Failed"
          THEN /\ iter' = StopOthers([iter EXCEPT ![i] = it])
               /\ exec' = [pc |-> "End", status |-> "FAILED",
                           output |-> JsonObj([Error |-> it.error])]
          ELSE /\ iter' = [iter EXCEPT ![i] = it]
               /\ exec' = exec
    /\ UNCHANGED <<stack, probe, input, items, dlq>>

\* the retry interval has passed
RetryElapsed(i) ==
    /\ exec.pc = "Iterating"
    /\ iter[i].pc = "RetryWait"
    /\ iter' = [iter EXCEPT ![i].pc = TaskState, ![i].wait = 0]
    /\ UNCHANGED <<stack, probe, storeVars, input, exec, items, dlq>>

\* MessageBody of HandleFailedDocument: the item with the caught error at $.error
DeadLetter(event, error) == event @@ [error |-> [Error |-> error]]

\* the state ends the iteration without sending the message
HandleFailedDocumentNoSend(i) ==
    /\ exec.pc = "Iterating"
    /\ iter[i].pc = "HandleFailedDocument"
    /\ dlq' = dlq
    /\ iter' = [iter EXCEPT ![i].pc = "Succeeded",
                            ![i].output = JsonObj([MessageId |-> i])]
    /\ UNCHANGED <<stack, probe, storeVars, input, exec, items>>

\* HandleFailedDocument: sqs:sendMessage to the dead-letter queue, End
HandleFailedDocument(i) ==
    /\ exec.pc = "Iterating"
    /\ iter[i].pc = "HandleFailedDocument"
    /\ dlq' = dlq \cup {DeadLetter(items[i], iter[i].error)}
    /\ iter' = [iter EXCEPT ![i].pc = "Succeeded",
                            ![i].output = JsonObj([MessageId |-> i])]
    /\ UNCHANGED <<stack, probe, storeVars, input, exec, items>>

\* every iteration has ended without failing: the Map state ends the execution
MapSucceeds ==
    /\ exec.pc = "Iterating"
    /\ \A i \in DOMAIN iter : iter[i].pc = "Succeeded"
    /\ exec' = [pc |-> "End", status |-> "SUCCEEDED",
                output |-> JsonArr([i \in DOMAIN iter |-> iter[i].output])]
    /\ UNCHANGED <<stack, probe, storeVars, input, items, iter, dlq>>

\* the nightly rule starts the full state machine
Init ==
    /\ stack = "full"
    /\ InitStores
    /\ input \in SubLists(KeyPool, NumItems)
    /\ exec = [pc |-> "ListDocumentsForProcessing", status |-> "RUNNING",
               output |-> NoOutput]
    /\ items = << >>
    /\ iter = << >>
    /\ probe = NoProbe

Next ==
    \/ ListDocumentsForProcessing
    \/ CheckForDocuments
    \/ NoDocumentsFound
    \/ MapStart
    \/ \E i \in DOMAIN iter : StartIteration(i)
    \/ \E i \in DOMAIN iter : SummarizeDocument(i)
    \/ \E i \in DOMAIN iter : RetryElapsed(i)
    \/ \E i \in DOMAIN iter : HandleFailedDocument(i)
    \/ MapSucceeds

Spec == Init /\ [][Next]_vars

\* run_poc.py starts the POC state machine with {"documents": [...]}
PocInit ==
    /\ stack = "poc"
    /\ InitStores
    /\ input \in SubLists(DocumentPool, NumItems)
    /\ exec = [pc |-> "ProcessDocuments", status |-> "RUNNING", output |-> NoOutput]
    /\ items = << >>
    /\ iter = << >>
    /\ probe = NoProbe

PocNext ==
    \/ MapStart
    \/ \E i \in DOMAIN iter : StartIteration(i)
    \/ \E i \in DOMAIN iter : SummarizeDocument(i)
    \/ \E i \in DOMAIN iter : RetryElapsed(i)
    \/ MapSucceeds

PocSpec == PocInit /\ [][PocNext]_vars


(***************************************************************************)
(* Properties of the handler, checked under WorkerSpec.                    *)
(***************************************************************************)
\* the invocation got past the two event checks of lines 382-398
PastChecks(r) == r.ret = "raise" \/ (r.ret = "return" /\ r.status = "SUCCEEDED")

RowsAdded == BagCardinality(auditLog') - BagCardinality(auditLog)

RECURSIVE SumOver(_, _)
SumOver(f, S) ==
    IF S = {} THEN 0
    ELSE LET x == CHOOSE y \in S : TRUE IN f[x] + SumOver(f, S \ {x})

\* C1 as stated: every invocation of the handler writes exactly one row to
\* the Audit Log, so the log holds as many rows as there were invocations.
C1_ExactlyOneRowPerInvocation ==
    BagCardinality(auditLog) = SumOver(calls, Slots)

\* C1, amended: an invocation never writes two rows.  One that gets past the
\* event checks makes one put_item, COMPLETED when it returns and FAILED when
\* it raises, and the row is in the table exactly when that put_item succeeds
\* (added to it, or in the POC stack put in place of the document's earlier
\* row); one that returns SKIPPED or FAILED for its event writes no row.
C1_AtMostOneRowPerInvocation ==
    [][\A s \in Slots : calls'[s] # calls[s] =>
          LET r == inv'[s]
              row == [document_id |-> r.key,
                      status |-> IF r.ret = "return" THEN "COMPLETED" ELSE "FAILED"]
          IN  IF PastChecks(r) /\ r.answers.put_item
              THEN /\ r.row # NoRow
                   /\ AuditKey(r.row) = row
                   /\ RowsAdded \in {0, 1}
                   /\ stack = "full" => RowsAdded = 1
                   /\ CopiesIn(row, auditLog') >= 1
                   /\ \A x \in BagToSet(auditLog') \ {row} :
                         CopiesIn(x, auditLog') <= CopiesIn(x, auditLog)
              ELSE r.row = NoRow /\ auditLog' = auditLog]_vars

\* two invocations, one of which raised, and a row for each
C1_Witness ==
    /\ calls[Direct] = 2
    /\ inv[Direct].ret = "raise"
    /\ BagCardinality(auditLog) = 2
    /\ \E row \in BagToSet(auditLog) : row.status = "COMPLETED"

StoredFailure(r) ==
    /\ FailedKey(r.key) \in DOMAIN failed
    /\ failed[FailedKey(r.key)].fields.processing_id = r.processing_id
    /\ failed[FailedKey(r.key)].fields.error_type = r.error_type

\* C2 as stated: every invocation that raises has persisted its failure
\* record at failed/{basename}_error.json and written a FAILED row whose
\* message has at most 500 characters.
C2_FailureAlwaysRecorded ==
    \A s \in Slots : inv[s].ret = "raise" =>
        /\ StoredFailure(inv[s])
        /\ inv[s].row.status = "FAILED"
        /\ inv[s].row.error_message_len <= 500
        /\ CopiesIn(AuditKey(inv[s].row), auditLog) >= 1

\* C2, amended: every exception of the try block, none of them the malformed
\* JSON, is re-raised to the caller; before that the failure record is put at
\* failed/{basename}_error.json and is there unless that put itself fails, and
\* a FAILED row with a message of at most 500 characters is put and is in the
\* log unless put_item fails.
C2_FailureRecordedUnlessWriteFails ==
    \A s \in Slots : inv[s].ret = "raise" =>
        /\ inv[s].error_type \notin {"", "JSONDecodeError"}
        /\ inv[s].answers.put_failed => StoredFailure(inv[s])
        /\ inv[s].answers.put_item =>
              /\ inv[s].row.status = "FAILED"
              /\ inv[s].row.document_id = inv[s].key
              /\ inv[s].row.error_message_len <= 500
              /\ CopiesIn(AuditKey(inv[s].row), auditLog) >= 1
        /\ ~inv[s].answers.put_item => inv[s].row = NoRow

\* a raise with a message longer than 500 characters, recorded in both places
C2_Witness ==
    /\ inv[Direct].ret = "raise"
    /\ inv[Direct].answers.msg > 500
    /\ inv[Direct].error_type = "ValidationException"
    /\ StoredFailure(inv[Direct])
    /\ inv[Direct].row.status = "FAILED"
    /\ inv[Direct].row.error_message_len = 500

\* the model answered, and what it answered does not parse as JSON
MalformedReply(r) ==
    /\ PastChecks(r)
    /\ r.answers.get = "ok"
    /\ r.answers.body.bad = 0
    /\ ~r.answers.body.blank
    /\ r.answers.bedrock = "ok"
    /\ JsonLoads(Strip(Unfenced(r.answers.raw))) = NoValue

StoredDegraded(r) ==
    /\ SummaryKey(r.key) \in DOMAIN summaries
    /\ LET sum == summaries[SummaryKey(r.key)].fields
       IN  /\ sum.risk_level = "UNKNOWN"
           /\ "error" \in DOMAIN sum
           /\ sum.raw_response_len <= 1000
           /\ sum.raw_response_len <= Width(r.answers.raw)
           /\ sum.processing_id = r.processing_id

\* C3 as stated: on a reply that is not JSON the handler never raises; it
\* persists the degraded summary, writes a COMPLETED row and returns.
C3_MalformedNeverRaises ==
    \A s \in Slots : MalformedReply(inv[s]) =>
        /\ inv[s].ret = "return"
        /\ StoredDegraded(inv[s])
        /\ inv[s].row.status = "COMPLETED"

\* C3, amended: on a reply that is not JSON invoke_bedrock does not raise but
\* returns the degraded summary (risk_level UNKNOWN, an error field, at most
\* 1000 characters of the response).  When the put of the summary succeeds the
\* handler returns SUCCEEDED with that summary persisted, and writes a
\* COMPLETED row with risk_level UNKNOWN unless put_item fails; when the put
\* of the summary fails the handler raises that storage error.
C3_MalformedDegradesUnlessWriteFails ==
    \A s \in Slots : MalformedReply(inv[s]) =>
        /\ inv[s].error_type # "JSONDecodeError"
        /\ inv[s].answers.put_summary =>
              /\ inv[s].ret = "return"
              /\ inv[s].status = "SUCCEEDED"
              /\ inv[s].risk_level = "UNKNOWN"
              /\ StoredDegraded(inv[s])
        /\ inv[s].answers.put_summary /\ inv[s].answers.put_item =>
              /\ inv[s].row.status = "COMPLETED"
              /\ inv[s].row.risk_level = "UNKNOWN"
              /\ CopiesIn(AuditKey(inv[s].row), auditLog) >= 1
        /\ ~inv[s].answers.put_summary =>
              /\ inv[s].ret = "raise"
              /\ inv[s].error_type = "ClientError"

\* a fenced reply of 1500 characters of prose, degraded and cut to 1000
C3_Witness ==
    /\ MalformedReply(inv[Direct])
    /\ inv[Direct].answers.raw = LongFencedNotJson
    /\ inv[Direct].ret = "return"
    /\ StoredDegraded(inv[Direct])
    /\ summaries[SummaryKey(inv[Direct].key)].fields.raw_response_len = 1000
    /\ inv[Direct].row.status = "COMPLETED"

\* the document was fetched and decoded, and is empty once stripped
EmptyDocument(r) ==
    /\ PastChecks(r)
    /\ r.answers.get = "ok"
    /\ ~(EndsWith(r.key, DotTxt) /\ r.answers.body.bad > 0)
    /\ r.answers.body.blank \/ r.answers.body.len = 0

\* C4: for a document that is empty after stripping, the invocation makes no
\* call of the model and raises (ValueError) to its caller.
C4_EmptyDocumentNoModelCall ==
    \A s \in Slots : EmptyDocument(inv[s]) =>
        /\ inv[s].model_calls = 0
        /\ inv[s].ret = "raise"
        /\ inv[s].error_type = "ValueError"
        /\ inv[s].summary_put = NoObject

\* a whitespace-only document was rejected
C4_Witness ==
    /\ EmptyDocument(inv[Direct])
    /\ inv[Direct].answers.body = BlankBody
    /\ inv[Direct].ret = "raise"
    /\ inv[Direct].model_calls = 0


(***************************************************************************)
(* Properties of the full state machine, checked under Spec.               *)
(***************************************************************************)
\* the iteration went through the Catch and HandleFailedDocument
DeadLettered(i) == iter[i].pc = "Succeeded" /\ iter[i].error # ""

\* C5: an item whose retries are exhausted is sent to the dead-letter queue
\* with its last error attached, and the execution is not failed by it: no
\* iteration is failed or stopped, and when the execution ends every item
\* has either returned or been dead-lettered.
C5_DeadLetterDoesNotAbort ==
    /\ exec.status # "FAILED"
    /\ \A i \in DOMAIN iter :
          /\ iter[i].pc \notin {"Failed", "Aborted"}
          /\ iter[i].pc = "HandleFailedDocument" =>
                /\ inv[i].ret = "raise"
                /\ iter[i].error = inv[i].error_type
                /\ IF inv[i].error_type = "ThrottlingException"
                   THEN iter[i].retries[1] = 5
                   ELSE iter[i].retries[2] = 2
          /\ DeadLettered(i) =>
                /\ inv[i].ret = "raise"
                /\ DeadLetter(items[i], inv[i].error_type) \in dlq
    /\ exec.pc = "End" /\ items # << >> =>
          \A i \in DOMAIN iter :
              /\ iter[i].pc = "Succeeded"
              /\ inv[i].ret = "return" \/ DeadLettered(i)

\* the execution ended with one item dead-lettered and another summarized
C5_Witness ==
    /\ exec.pc = "End"
    /\ \E i, j \in DOMAIN iter :
          /\ DeadLettered(i)
          /\ DeadLetter(items[i], "ValueError") \in dlq
          /\ inv[j].ret = "return"
          /\ inv[j].status = "SUCCEEDED"
          /\ calls[j] > calls[i]

SucceededCount == Cardinality({i \in DOMAIN iter : iter[i].pc = "Succeeded"})
FailedCount == Cardinality({i \in DOMAIN iter : iter[i].pc = "Failed"})

\* C6: the result of a run accounts for every item once, total = succeeded +
\* failed, and an item routed to the dead-letter queue is counted as failed
\* in it (its entry of the result shows the failure), never as succeeded.
C6_DeadLetteredCountedFailed ==
    exec.pc = "End" /\ exec.status = "SUCCEEDED" /\ items # << >> =>
        /\ Len(exec.output.elems) = Len(items)
        /\ Len(items) = SucceededCount + FailedCount
        /\ \A i \in DOMAIN iter :
              DeadLetter(items[i], inv[i].error_type) \in dlq =>
                  /\ iter[i].pc = "Failed"
                  /\ "error" \in DOMAIN exec.output.elems[i].fields

Throttled(r) == r.ret = "raise" /\ r.error_type = "ThrottlingException"

\* what C7 says besides the number of attempts: the waits of tier A are 2, 4,
\* 8, ... seconds, and three throttles followed by a success leave the item
\* succeeded after no more than 5 invocations
C7_WaitsAndScenario ==
    \A i \in DOMAIN iter :
        /\ iter[i].pc = "RetryWait" /\ Throttled(inv[i]) =>
              iter[i].wait = (<<2000, 4000, 8000, 16000, 32000>>)[iter[i].retries[1]]
        /\ iter[i].retries = <<3, 0>> /\ inv[i].ret = "return" =>
              /\ iter[i].pc = "Succeeded"
              /\ iter[i].error = ""
              /\ calls[i] = 4

GeneralError(r) == r.ret = "raise" /\ r.error_type # "ThrottlingException"

\* the waits of tier B: 5 seconds, then 5 * 1.5
C8_Waits ==
    \A i \in DOMAIN iter :
        iter[i].pc = "RetryWait" /\ GeneralError(inv[i]) =>
            iter[i].wait = (<<5000, 7500>>)[iter[i].retries[2]]

\* C8 as stated: an item that keeps failing with an error outside tier A is
\* invoked exactly 2 times and is then routed to the dead-letter queue.
C8_TwoInvocations ==
    /\ C8_Waits
    /\ \A i \in DOMAIN iter :
          iter[i].retries[1] = 0 /\ (iter[i].pc = "HandleFailedDocument" \/ DeadLettered(i))
              => calls[i] = 2

\* C8, amended: an item that keeps failing with an error outside tier A is
\* retried 2 times, 3 invocations in all, after waits of 5 and 7.5 seconds,
\* and is then routed to the dead-letter queue.
C8_ThreeInvocations ==
    /\ C8_Waits
    /\ \A i \in DOMAIN iter :
          /\ iter[i].retries[1] = 0
             /\ (iter[i].pc = "HandleFailedDocument" \/ DeadLettered(i))
                => calls[i] = 3 /\ iter[i].retries[2] = 2
          /\ GeneralError(inv[i]) /\ iter[i].pc \notin {"RetryWait", TaskState} =>
                /\ iter[i].retries[2] = 2
                /\ iter[i].pc = "HandleFailedDocument" \/ DeadLettered(i)
          /\ DeadLettered(i) => DeadLetter(items[i], inv[i].error_type) \in dlq

\* an empty document, invoked three times and dead-lettered
C8_Witness ==
    \E i \in DOMAIN iter :
        /\ DeadLettered(i)
        /\ iter[i].retries = <<0, 2>>
        /\ calls[i] = 3
        /\ DeadLetter(items[i], "ValueError") \in dlq

\* C9: an item that fails because its key is absent or its document is empty
\* is not retried: the task goes straight to its terminal handling, the
\* handler having been invoked once, and an empty document costs no model call.
C9_MissingOrEmptyNotRetried ==
    \A i \in DOMAIN iter :
        inv[i].ret = "raise" /\ inv[i].error_type \in {"NoSuchKey", "ValueError"} =>
            /\ iter[i].pc # "RetryWait"
            /\ iter[i].retries[2] = 0
            /\ inv[i].model_calls = 0

(***************************************************************************)
(* Properties of both state machines on an empty input.                    *)
(***************************************************************************)
\* C10: a run whose input list is empty ends with the distinguished
\* NO_DOCUMENTS result, not with an ordinary (empty) result of the Map state,
\* and invokes the handler zero times.
C10_EmptyInputDistinguished ==
    exec.pc = "End" /\ input = << >> =>
        /\ exec.output.json = "object"
        /\ exec.output.fields.status = "NO_DOCUMENTS"
        /\ \A s \in Slots : calls[s] = 0

(***************************************************************************)
(* The functions of the Lambda applied on their own: nothing is deployed   *)
(* or stored, probe holds the inputs and then the result.                  *)
(***************************************************************************)
NothingRuns ==
    /\ stack = "full"
    /\ InitStores
    /\ input = << >>
    /\ exec = IdleExec
    /\ items = << >>
    /\ iter = << >>

Probe(op, in, out) == [op |-> op, in |-> in, out |-> out]
NoResult == << >>

(***************************************************************************)
(* save_summary and save_failed_document on two input keys: the object     *)
(* keys they derive.                                                       *)
(***************************************************************************)
\* keys the handler accepts: they end in .txt or .pdf
AcceptedKeys ==
    LET dirs == {UploadsPrefix, UploadsPrefix \o <<"a", "/">>}
        stems == {<<"d", "o", "c", "1">>, <<"d", "o", "c", "2">>,
                  <<"d", "o", "c", "1", ".", "v", "2">>}
    IN  {d \o n \o e : d \in dirs, n \in stems, e \in {DotTxt, DotPdf}}

KeysInit ==
    /\ NothingRuns
    /\ probe \in {Probe("keys", <<a, b>>, NoResult) : a, b \in AcceptedKeys}

\* the keys the two writers derive for each of the two input keys
DeriveKeys ==
    /\ probe.op = "keys"
    /\ probe.out = NoResult
    /\ probe' = [probe EXCEPT !.out =
                    [k \in 1..2 |-> [summary |-> SummaryKey(probe.in[k]),
                                     failure |-> FailedKey(probe.in[k])]]]
    /\ UNCHANGED <<stack, storeVars, sfnVars>>

KeysSpec == KeysInit /\ [][DeriveKeys]_vars

\* C11: for any two different input keys the handler accepts, the derived
\* summary keys differ and the derived failure keys differ.
C11_DistinctKeysDistinctObjects ==
    probe.op = "keys" /\ probe.out # NoResult /\ probe.in[1] # probe.in[2] =>
        /\ probe.out[1].summary # probe.out[2].summary
        /\ probe.out[1].failure # probe.out[2].failure

(***************************************************************************)
(* Properties of the handler on a key it is given twice (WorkerSpec).      *)
(***************************************************************************)
Doc1SummaryKey ==
    <<"s", "u", "m", "m", "a", "r", "i", "e", "s", "/", "d", "o", "c", "1",
      "_", "s", "u", "m", "m", "a", "r", "y", ".", "j", "s", "o", "n">>

\* the invocation summarized its document and every write it made succeeded
Processed(r) ==
    /\ r.ret = "return"
    /\ r.status = "SUCCEEDED"
    /\ r.answers.put_summary
    /\ r.answers.put_item

\* C12: the summary key is summaries/{basename}_summary.json; when the same
\* input key is processed twice, both calls write that key, one summary
\* object is left and it holds the second write, and each call adds a new
\* Audit Log row, so the log has grown by two rows after the second call.
C12_SameKeyTwiceTwoRows ==
    [][(/\ calls[Direct] = 1
        /\ calls'[Direct] = 2
        /\ Processed(inv[Direct])
        /\ Processed(inv'[Direct])
        /\ inv'[Direct].key = inv[Direct].key)
       => LET r == inv'[Direct]
          IN  /\ r.key = Doc1Txt => SummaryKey(r.key) = Doc1SummaryKey
              /\ DOMAIN summaries = {SummaryKey(r.key)}
              /\ DOMAIN summaries' = {SummaryKey(r.key)}
              /\ summaries'[SummaryKey(r.key)].fields.generated_at = r.processing_id
              /\ BagCardinality(auditLog) = 1
              /\ BagCardinality(auditLog') = 2]_vars

(***************************************************************************)
(* The handler on what the model may reply (ReplySpec): the document is    *)
(* read, the model answers, every write succeeds.                          *)
(***************************************************************************)
\* JSON null, None once parsed
JsonNull == "<null>"

JsonString == [type |-> "string"]

\* replies of the model: the one the prompt asks for, carrying the
\* processing_id and model_used it was given, plain and fenced; objects a
\* model is free to give instead, one of them with its confidence_score as
\* a number such as 0.85; JSON that is not an object; text
Replies(processing_id, model_id) ==
    LET labs == [HbA1c |-> "5.4", GFR |-> "Not found"]
        faithful ==
            JsonObject([processing_id |-> processing_id, model_used |-> model_id,
                        risk_level |-> "LOW", confidence_score |-> "HIGH",
                        lab_values |-> labs])
        foreign ==
            JsonObject([processing_id |-> <<9, 9>>, model_used |-> "some-model",
                        generated_at |-> <<9, 9>>,
                        risk_level |-> "HIGH", confidence_score |-> "LOW",
                        lab_values |-> labs])
        offScale ==
            JsonObject([processing_id |-> processing_id, model_used |-> model_id,
                        risk_level |-> "CRITICAL", confidence_score |-> "HIGH",
                        lab_values |-> labs])
        nullLab ==
            JsonObject([processing_id |-> processing_id, model_used |-> model_id,
                        risk_level |-> "LOW", confidence_score |-> "HIGH",
                        lab_values |-> [HbA1c |-> JsonNull, GFR |-> "90"]])
        bare == JsonObject([patient_id |-> "P-1"])
        scored ==
            JsonObject([processing_id |-> processing_id, model_used |-> model_id,
                        risk_level |-> "LOW", confidence_score |-> JsonFloat,
                        lab_values |-> labs])
    IN  {<< JsonValue(300, faithful) >>,
         << JsonValue(300, scored) >>,
         << Fence, JsonWord, Ws, JsonValue(300, faithful), Ws, Fence >>,
         << JsonValue(300, foreign) >>,
         << JsonValue(300, offScale) >>,
         << JsonValue(300, nullLab) >>,
         << JsonValue(20, bare) >>,
         << JsonValue(300, MediumSummary) >>,
         << JsonValue(2, JsonArray) >>,
         << JsonValue(4, JsonString) >>,
         NotJson,
         LongFencedNotJson}

\* one direct invocation on a readable document, the model answering
InvokeOnReply ==
    /\ calls[Direct] < MaxDirect
    /\ \E event \in {LowerEvent(Doc1Txt), UpperEvent(Doc2Pdf)},
          body \in {GoodBody, LongBody} :
          \E raw \in Replies(<<Direct, calls[Direct] + 1>>,
                             select_model(body.len, ModelIdOf(stack))) :
              Invoke(Direct, event, Env("ok", body, "ok", raw, 120, AllWritten))
    /\ UNCHANGED <<stack, probe, sfnVars>>

ReplySpec == WorkerInit /\ [][InvokeOnReply]_vars

\* the summary object the invocation persisted, if it returned
Persisted(r) == summaries[SummaryKey(r.key)].fields

RiskLevels == {"HIGH", "MEDIUM", "LOW", "UNKNOWN"}

\* C13: whatever the model replies, a summary the handler returned and
\* persisted has a risk_level among HIGH, MEDIUM, LOW, UNKNOWN and a
\* lab_values mapping without a null value.
C13_PersistedSummaryWellFormed ==
    \A s \in Slots : inv[s].ret = "return" /\ inv[s].status = "SUCCEEDED" =>
        LET sum == Persisted(inv[s])
        IN  /\ "risk_level" \in DOMAIN sum
            /\ sum.risk_level \in RiskLevels
            /\ inv[s].risk_level \in RiskLevels
            /\ "lab_values" \in DOMAIN sum =>
                  \A k \in DOMAIN sum.lab_values : sum.lab_values[k] # JsonNull

\* the model call of the invocation returned a response
ModelAnswered(r) == r.model_calls = 1 /\ r.answers.bedrock = "ok"

\* C14: once the model has returned a response, whatever its content (text
\* that is not JSON, fenced JSON, JSON that is not an object, an object with
\* fields missing), the handler does not raise: it persists a summary
\* artifact of this invocation and returns normally.
C14_NeverRaisesOnResponseContent ==
    \A s \in Slots : ModelAnswered(inv[s]) =>
        /\ inv[s].ret = "return"
        /\ inv[s].status = "SUCCEEDED"
        /\ SummaryKey(inv[s].key) \in DOMAIN summaries
        /\ Persisted(inv[s]).generated_at = inv[s].processing_id

\* C15: the summary a successful invocation persisted carries the
\* invocation's own processing_id, the model selected for it and the
\* generated_at of the invocation, whatever the model put in those fields.
C15_SummaryStamped ==
    \A s \in Slots : inv[s].ret = "return" /\ inv[s].status = "SUCCEEDED" =>
        LET sum == Persisted(inv[s])
        IN  /\ {"processing_id", "model_used", "generated_at"} \subseteq DOMAIN sum
            /\ sum.processing_id = inv[s].processing_id
            /\ sum.model_used = inv[s].model_used
            /\ sum.generated_at = inv[s].processing_id

(***************************************************************************)
(* select_model on two texts, given by their lengths, under one MODEL_ID.  *)
(***************************************************************************)
\* lengths around n, with the shortest texts
Around(n) == {0, 1, 5} \cup ((n - ProbeSpan)..(n + ProbeSpan))

SelectInit ==
    /\ NothingRuns
    /\ probe \in {Probe("select", [len |-> <<a, b>>, MODEL_ID |-> id], NoResult) :
                    a, b \in Around(TOKEN_THRESHOLD * CharsPerToken),
                    id \in {NoModel, FAST_MODEL, DEFAULT_MODEL}}

ApplySelectModel ==
    /\ probe.op = "select"
    /\ probe.out = NoResult
    /\ probe' = [probe EXCEPT !.out =
                    [k \in 1..2 |-> select_model(probe.in.len[k], probe.in.MODEL_ID)]]
    /\ UNCHANGED <<stack, storeVars, sfnVars>>

SelectSpec == SelectInit /\ [][ApplySelectModel]_vars

\* C16: a configured MODEL_ID is returned for every text; otherwise the fast
\* model is chosen when len(text) div 4 is below 8000 and the capable model
\* when it is 8000 or more, so the choice is monotonic in the length of the
\* text and switches at 32,000 characters.
C16_SelectModel ==
    probe.op = "select" /\ probe.out # NoResult =>
        LET len == probe.in.len
            out == probe.out
        IN  IF probe.in.MODEL_ID # NoModel
            THEN \A k \in 1..2 : out[k] = probe.in.MODEL_ID
            ELSE /\ \A k \in 1..2 :
                      /\ len[k] \div 4 < 8000 => out[k] = FAST_MODEL
                      /\ len[k] \div 4 >= 8000 => out[k] = DEFAULT_MODEL
                      /\ out[k] = FAST_MODEL <=> len[k] < 32000
                 /\ len[1] <= len[2] /\ out[1] = DEFAULT_MODEL
                       => out[2] = DEFAULT_MODEL

\* the last length routed to the fast model and the first routed to the other
C16_Witness ==
    /\ probe.op = "select"
    /\ probe.in.MODEL_ID = NoModel
    /\ probe.in.len = <<31999, 32000>>
    /\ probe.out = <<FAST_MODEL, DEFAULT_MODEL>>

(***************************************************************************)
(* invoke_bedrock: the document text it places in the prompt.  A text of   *)
(* n characters is its positions 1..n; the prompt text is a sequence of    *)
(* slices of them and of inserted strings.                                 *)
(***************************************************************************)
Slice(from, to) == [kind |-> "slice", from |-> from, to |-> to]
Marker == [kind |-> "inserted", text |-> "[...DOCUMENT TRUNCATED...]",
           n |-> TruncationMarkerLen]

\* the tail dropped: only text[:max_input_chars] is kept
PromptTextHeadOnly(len) ==
    IF len > MaxInputChars THEN << Slice(1, MaxInputChars) >>
    ELSE << Slice(1, len) >>

\* text[:half] + marker + text[-half:] when len(text) > max_input_chars
PromptText(len) ==
    LET half == MaxInputChars \div 2
    IN  IF len > MaxInputChars
        THEN << Slice(1, Min(half, len)), Marker, Slice(len - half + 1, len) >>
        ELSE << Slice(1, len) >>

RECURSIVE PartsLen(_)
PartsLen(parts) ==
    IF parts = << >> THEN 0
    ELSE (IF Head(parts).kind = "slice"
          THEN Head(parts).to - Head(parts).from + 1
          ELSE Head(parts).n) + PartsLen(Tail(parts))

PromptInit ==
    /\ NothingRuns
    /\ probe \in {Probe("prompt", n, NoResult) :
                    n \in Around(MaxInputChars \div 2) \cup Around(MaxInputChars)
                          \cup Around(MaxInputChars + MaxInputChars \div 2)
                          \cup Around(2 * MaxInputChars)
                          \cup Around(3 * MaxInputChars)}

ApplyTruncation ==
    /\ probe.op = "prompt"
    /\ probe.out = NoResult
    /\ probe' = [probe EXCEPT !.out = PromptText(probe.in)]
    /\ UNCHANGED <<stack, storeVars, sfnVars>>

PromptSpec == PromptInit /\ [][ApplyTruncation]_vars

\* C17: a document of more than 150,000 characters is placed in the prompt
\* as its first 75,000 characters, the marker [...DOCUMENT TRUNCATED...] and
\* its last 75,000 characters, a text of one fixed length; a document of
\* 150,000 characters or fewer is placed unchanged, without the marker.
C17_Truncation ==
    probe.op = "prompt" /\ probe.out # NoResult =>
        LET n == probe.in
            parts == probe.out
        IN  IF n > 150000
            THEN /\ Len(parts) = 3
                 /\ parts[1] = Slice(1, 75000)
                 /\ parts[2].kind = "inserted"
                 /\ parts[2].text = "[...DOCUMENT TRUNCATED...]"
                 /\ parts[3] = Slice(n - 74999, n)
                 /\ PartsLen(parts) = 150000 + parts[2].n
                 /\ PartsLen(parts) = PromptTextLen(n)
            ELSE /\ parts = << Slice(1, n) >>
                 /\ PartsLen(parts) = n
                 /\ PromptTextLen(n) = n

\* the shortest document that is truncated
C17_Witness ==
    /\ probe.op = "prompt"
    /\ probe.in = 150001
    /\ probe.out = << Slice(1, 75000), Marker, Slice(75002, 150001) >>

(***************************************************************************)
(* The handler on a key that is no document (WorkerSpec).                  *)
(***************************************************************************)
Unsupported(key) == key # <<>> /\ ~EndsWith(key, DotTxt) /\ ~EndsWith(key, DotPdf)

\* C18: an invocation on a key that ends neither in .txt nor in .pdf
\* returns SKIPPED without raising; it reads nothing from the store, calls
\* no model, writes no summary and no failure record, and writes no row.
C18_UnsupportedSkipped ==
    [][\A s \in Slots : calls'[s] # calls[s] /\ Unsupported(inv'[s].key) =>
          /\ inv'[s].ret = "return"
          /\ inv'[s].status = "SKIPPED"
          /\ inv'[s].get_calls = 0
          /\ inv'[s].model_calls = 0
          /\ inv'[s].summary_put = NoObject
          /\ inv'[s].failed_put = NoObject
          /\ inv'[s].row = NoRow
          /\ summaries' = summaries
          /\ failed' = failed
          /\ auditLog' = auditLog]_vars

\* notes.md was skipped after a document had been summarized
C18_Witness ==
    /\ calls[Direct] = 2
    /\ inv[Direct].status = "SKIPPED"
    /\ inv[Direct].key = NotesMd
    /\ DOMAIN summaries = {Doc1SummaryKey}
    /\ DOMAIN failed = {}
    /\ BagCardinality(auditLog) = 1

(***************************************************************************)
(* The life of one item of the full state machine (Spec).                  *)
(***************************************************************************)
\* where an iteration stands: waiting to start, in the task state or in
\* HandleFailedDocument, waiting for a retry, ended after the Lambda
\* returned, or ended after HandleFailedDocument
ItemState(it) ==
    CASE it.pc = "Pending" -> "PENDING"
      [] it.pc \in {"SummarizeDocument", "Summarize", "HandleFailedDocument"}
            -> "IN_PROGRESS"
      [] it.pc = "RetryWait" -> "FAILED_RETRYING"
      [] it.pc = "Succeeded" /\ it.error = "" -> "SUCCEEDED"
      [] it.pc = "Succeeded" /\ it.error # "" -> "FAILED_TERMINAL"
      [] OTHER -> "STOPPED"

ItemMoves ==
    {<<"PENDING", "IN_PROGRESS">>, <<"IN_PROGRESS", "SUCCEEDED">>,
     <<"IN_PROGRESS", "FAILED_RETRYING">>, <<"IN_PROGRESS", "FAILED_TERMINAL">>,
     <<"FAILED_RETRYING", "IN_PROGRESS">>}

\* C19: an item only moves PENDING to IN_PROGRESS, IN_PROGRESS to SUCCEEDED,
\* FAILED_RETRYING or FAILED_TERMINAL, and FAILED_RETRYING to IN_PROGRESS; an
\* item that is SUCCEEDED or FAILED_TERMINAL is never invoked or moved again;
\* an item is FAILED_TERMINAL only once its message is in the dead-letter queue.
C19_ItemLifecycle ==
    [][/\ \A i \in DOMAIN iter' \ DOMAIN iter : ItemState(iter'[i]) = "PENDING"
       /\ \A i \in DOMAIN iter :
             /\ i \in DOMAIN iter'
             /\ ItemState(iter'[i]) # ItemState(iter[i]) =>
                   <<ItemState(iter[i]), ItemState(iter'[i])>> \in ItemMoves
             /\ calls'[i] # calls[i] => ItemState(iter[i]) = "IN_PROGRESS"
             /\ ItemState(iter[i]) \in {"SUCCEEDED", "FAILED_TERMINAL"} =>
                   iter'[i] = iter[i] /\ calls'[i] = calls[i]
             /\ ItemState(iter'[i]) = "FAILED_TERMINAL" =>
                   DeadLetter(items[i], iter'[i].error) \in dlq']_vars

\* one item is waiting for a retry while another has been dead-lettered
C19_Witness ==
    \E i, j \in DOMAIN iter :
        /\ ItemState(iter[i]) = "FAILED_RETRYING"
        /\ ItemState(iter[j]) = "FAILED_TERMINAL"
        /\ calls[j] = 3

(***************************************************************************)
(* The scheduled run up to the start of the Map state, on many documents   *)
(* (ListSpec).                                                             *)
(***************************************************************************)
\* uploads/00001.ext .. uploads/n.ext, in the order S3 lists them
NumberedKeys(n, ext) ==
    LET digit == <<"0", "1", "2", "3", "4", "5", "6", "7", "8", "9">>
        name(k) == << digit[((k \div 10000) % 10) + 1], digit[((k \div 1000) % 10) + 1],
                      digit[((k \div 100) % 10) + 1], digit[((k \div 10) % 10) + 1],
                      digit[(k % 10) + 1] >>
    IN  [k \in 1..n |-> UploadsPrefix \o name(k) \o ext]

ListInit ==
    /\ stack = "full"
    /\ InitStores
    /\ probe = NoProbe
    /\ input \in {NumberedKeys(n, DotTxt) :
                     n \in Around(ListMaxKeys) \cup Around(2 * ListMaxKeys)
                           \cup Around(20000 - ProbeSpan)}
    /\ exec = [pc |-> "ListDocumentsForProcessing", status |-> "RUNNING",
               output |-> NoOutput]
    /\ items = << >>
    /\ iter = << >>

ListSpec ==
    ListInit /\ [][\/ ListDocumentsForProcessing
                   \/ CheckForDocuments
                   \/ NoDocumentsFound
                   \/ MapStart]_vars

\* C20: every key under uploads/ at listing time becomes one item of the
\* batch, none is left out, for up to 20,000 documents under the prefix.
C20_EveryListedKeyAnItem ==
    exec.pc \notin {"ListDocumentsForProcessing", "Idle"} /\ Len(input) <= 20000 =>
        /\ Len(items) = Len(input)
        /\ \A i \in DOMAIN items : items[i].Key = input[i]

(***************************************************************************)
(* Both state machines with their execution timeout (TimedSpec): 6 hours   *)
(* for the full one, 30 minutes for the POC one.  Spec and PocSpec are the *)
(* runs that end before it.                                                *)
(***************************************************************************)
\* the timeout of the state machine passes while the execution is running:
\* the execution ends TIMED_OUT with the error States.Timeout and no output,
\* and the iterations that have not ended are stopped
ExecutionTimeout ==
    /\ exec.status = "RUNNING"
    /\ exec' = [pc |-> "End", status |-> "TIMED_OUT", output |-> NoOutput]
    /\ iter' = StopOthers(iter)
    /\ UNCHANGED <<stack, probe, storeVars, input, items, dlq>>

TimedSpec == (Init \/ PocInit) /\ [][Next \/ ExecutionTimeout]_vars

\* C21: when the timeout of the run fires, the result of the run lists every
\* item of the input, and each item that had not reached a terminal state is
\* reported in it as timed out.
C21_TimedOutItemsReported ==
    exec.status = "TIMED_OUT" /\ exec.pc = "End" =>
        /\ exec.output.json = "array"
        /\ Len(exec.output.elems) = Len(input)
        /\ \A i \in DOMAIN iter :
              ~(iter[i].pc = "Succeeded") =>
                  exec.output.elems[i].json = "object"
                  /\ exec.output.elems[i].fields.status = "TIMED_OUT"

(***************************************************************************)
(* The Audit Log across the attempts on one document (PocSpec).            *)
(***************************************************************************)
\* C22: the Audit Log is append-only.  A row once written is never replaced
\* or removed by a later invocation, a retry of the same document included:
\* every attempt adds a row under a timestamp of its own, so each row of the
\* log is still in it, as many times, after any invocation.
C22_AuditLogAppendOnly ==
    [][/\ \A row \in BagToSet(auditLog) :
             CopiesIn(row, auditLog') >= CopiesIn(row, auditLog)
       /\ \A s \in Slots :
             calls'[s] # calls[s] /\ inv'[s].row # NoRow =>
                 /\ inv'[s].row.processing_timestamp = <<s, calls'[s]>>
                 /\ BagCardinality(auditLog') = BagCardinality(auditLog) + 1]_vars

(***************************************************************************)
(* A batch of more items than the Map state runs at once (CeilingSpec).    *)
(* The items are keys the Lambda skips, so an invocation has one outcome.  *)
(* The iterations of the POC batch start and end in every order; those of  *)
(* the full batch, which are as many and do the same, in the order of the  *)
(* items.                                                                  *)
(***************************************************************************)
CeilingInit ==
    /\ stack \in {"full", "poc"}
    /\ \E n \in {MaxConcurrencyOf(stack) + OverCeiling} :
          /\ input = IF stack = "poc"
                     THEN [k \in 1..n |-> LowerEvent(NumberedKeys(n, DotMd)[k])]
                     ELSE NumberedKeys(n, DotMd)
          /\ inv = [s \in 0..n |-> NoInvocation]
          /\ calls = [s \in 0..n |-> 0]
    /\ summaries = [k \in {} |-> NoObject]
    /\ failed = [k \in {} |-> NoObject]
    /\ auditLog = EmptyBag
    /\ faults = 0
    /\ dlq = {}
    /\ exec = [pc |-> IF stack = "poc" THEN "ProcessDocuments"
                      ELSE "ListDocumentsForProcessing",
               status |-> "RUNNING", output |-> NoOutput]
    /\ items = << >>
    /\ iter = << >>
    /\ probe = NoProbe

CeilingSpec ==
    CeilingInit
    /\ [][\/ ListDocumentsForProcessing
          \/ CheckForDocuments
          \/ MapStart
          \/ \E i \in DOMAIN iter :
                /\ stack = "full" => \A j \in 1..(i - 1) : iter[j].pc # "Pending"
                /\ StartIteration(i)
          \/ \E i \in DOMAIN iter :
                /\ stack = "full" => \A j \in 1..(i - 1) : Ended(iter[j])
                /\ SummarizeDocument(i)
          \/ MapSucceeds]_vars

C24_PocFailedItemDoesNotAbort ==
    /\ exec.status # "FAILED"
    /\ \A i \in DOMAIN iter : iter[i].pc # "Aborted"
    /\ \A i \in DOMAIN iter :
          inv[i].ret = "raise" /\ iter[i].retries[1] = 2
          /\ iter[i].pc \notin {"RetryWait", TaskState} =>
              /\ exec.status \in {"RUNNING", "SUCCEEDED"}
              /\ exec.pc = "End" =>
                    /\ exec.output.json = "array"
                    /\ Len(exec.output.elems) = Len(input)

(***************************************************************************)
(* What one invocation leaves in the stores (ReplySpec).                   *)
(***************************************************************************)
\* C25: an invocation writes a summary (with a COMPLETED row) or a failure
\* record (with a FAILED row), never both: one that raises has written no
\* summary object, and one that returns SUCCEEDED has written no failure
\* record and no FAILED row.
C25_SummaryOrFailureNeverBoth ==
    [][\A s \in Slots : calls'[s] # calls[s] =>
          LET r == inv'[s]
          IN  /\ r.ret = "raise" =>
                    /\ r.summary_put = NoObject
                    /\ summaries' = summaries
              /\ r.ret = "return" /\ r.status = "SUCCEEDED" =>
                    /\ r.failed_put = NoObject
                    /\ failed' = failed
                    /\ r.row # NoRow => r.row.status = "COMPLETED"]_vars

FairInit == Init /\ Cardinality({i \in DOMAIN input : input[i] # NotesMd}) <= 1

FairSpec == FairInit /\ [][Next]_vars /\ WF_vars(Next)

\* C27: whatever errors the Lambda raises, an item is invoked at most
\* 1 + 5 + 2 = 8 times, an item that has ended was either returned by the
\* Lambda or sent to the dead-letter queue, and the run ends.
C27_BoundedAttemptsAndTermination ==
    /\ [](\A i \in DOMAIN iter :
             /\ calls[i] <= 8
             /\ calls[i] <= 1 + iter[i].retries[1] + iter[i].retries[2]
             /\ iter[i].retries[1] <= 5
             /\ iter[i].retries[2] <= 2
             /\ Ended(iter[i]) =>
                   /\ iter[i].pc = "Succeeded"
                   /\ inv[i].ret = "return" \/ DeadLettered(i)
                   /\ DeadLettered(i) =>
                         DeadLetter(items[i], inv[i].error_type) \in dlq)
    /\ <>(exec.pc = "End" /\ \A i \in DOMAIN iter : Ended(iter[i]))

\* an item throttled five times and then failing three times more: eight
\* invocations, then the dead-letter queue, and the run has ended
C27_Witness ==
    /\ exec.pc = "End"
    /\ \E i \in DOMAIN iter :
          /\ calls[i] = 8
          /\ iter[i].retries = <<5, 2>>
          /\ DeadLettered(i)

(***************************************************************************)
(* The failed area after a retry that succeeds (Spec).                     *)
(***************************************************************************)
\* C28: whenever the latest attempt on a document ended COMPLETED, the failed
\* area holds no record failed/{basename}_error.json for that document: the
\* record of an earlier failed attempt is gone after the retry that succeeds.
C28_NoFailureRecordAfterSuccess ==
    \A i \in DOMAIN iter :
        inv[i].ret = "return" /\ inv[i].status = "SUCCEEDED" =>
            FailedKey(inv[i].key) \notin DOMAIN failed

(***************************************************************************)
(* One invocation on an event of any shape, and what the task state of the *)
(* deployed state machine makes of its outcome (EventSpec).                *)
(***************************************************************************)
\* events with each of Bucket, bucket, Key, key absent, empty or set
EventInit ==
    /\ stack \in {"full", "poc"}
    /\ InitStores
    /\ input = << >>
    /\ exec = IdleExec
    /\ items = << >>
    /\ iter = << >>
    /\ \E S \in SUBSET {"Bucket", "bucket", "Key", "key"} :
          \E event \in [S -> {<< >>, BucketName, Doc1Txt, NotesMd}] :
              /\ \A f \in S \cap {"Bucket", "bucket"} : event[f] \in {<< >>, BucketName}
              /\ \A f \in S \cap {"Key", "key"} : event[f] # BucketName
              /\ probe = Probe("event", event, NoResult)

\* lambda:invoke on the event, then the Retry and Catch of the task state
InvokeOnEvent ==
    /\ probe.op = "event"
    /\ probe.out = NoResult
    /\ \E env \in AnswersTo(probe.in, BatchAnswers) : Invoke(Direct, probe.in, env)
    /\ probe' = [probe EXCEPT !.out = AfterTask(NewIteration, probe.in, inv'[Direct])]
    /\ UNCHANGED <<stack, sfnVars>>

EventSpec == EventInit /\ [][InvokeOnEvent]_vars

\* C29: an event that has no bucket or no key, under either casing, makes
\* the handler return FAILED without raising and without any effect (no
\* read of the store, no call of the model, no summary, no failure record,
\* no row), and the task state takes the return as a success: it neither
\* retries the item nor catches an error.
C29_IncompleteEventRejectedQuietly ==
    LET has(event, f) == f \in DOMAIN event /\ event[f] # << >>
        lacking(event) == \/ ~has(event, "Bucket") /\ ~has(event, "bucket")
                          \/ ~has(event, "Key") /\ ~has(event, "key")
    IN  probe.op = "event" /\ probe.out # NoResult /\ lacking(probe.in) =>
            /\ inv[Direct].ret = "return"
            /\ inv[Direct].status = "FAILED"
            /\ inv[Direct].get_calls = 0
            /\ inv[Direct].model_calls = 0
            /\ inv[Direct].summary_put = NoObject
            /\ inv[Direct].failed_put = NoObject
            /\ inv[Direct].row = NoRow
            /\ DOMAIN summaries = {}
            /\ DOMAIN failed = {}
            /\ auditLog = EmptyBag
            /\ probe.out.pc = "Succeeded"
            /\ probe.out.error = ""
            /\ \A k \in DOMAIN probe.out.retries : probe.out.retries[k] = 0

\* an event with a bucket and no key, answered FAILED
C29_Witness ==
    /\ probe.op = "event"
    /\ probe.in = [Bucket |-> BucketName]
    /\ probe.out # NoResult
    /\ inv[Direct].status = "FAILED"
    /\ calls[Direct] = 1
    /\ probe.out.pc = "Succeeded"

(***************************************************************************)
(* poc/lambda/summarizer/poc_handler.py: the handler on one key of its     *)
(* bucket (PocHandlerSpec).  It reads the document and writes the summary  *)
(* in the same bucket.                                                     *)
(***************************************************************************)
\* str.replace: every occurrence of old, from the left, becomes new
RECURSIVE Replace(_, _, _)
Replace(s, old, new) ==
    IF Len(s) < Len(old) THEN s
    ELSE IF SubSeq(s, 1, Len(old)) = old
    THEN new \o Replace(SubSeq(s, Len(old) + 1, Len(s)), old, new)
    ELSE <<Head(s)>> \o Replace(Tail(s), old, new)

\* poc_handler.handler on a bucket that holds the document at key: the
\* payload it returns and the bucket it leaves.  answered is whether the
\* document was read and the model replied with JSON; the handler returns
\* ERROR, and writes nothing, when not.
poc_handler(key, answered) ==
    LET bucket == [k \in {key} |-> "document"]
        output_key == Replace(Replace(key, UploadsPrefix, SummariesPrefix),
                              DotTxt, SummarySuffix)
    IN  IF key = << >>
        THEN [status |-> "ERROR", objects |-> [k \in {} |-> "document"]]
        ELSE IF ~answered
        THEN [status |-> "ERROR", input |-> key, objects |-> bucket]
        ELSE [status |-> "SUCCESS", input |-> key, output |-> output_key,
              objects |-> Put(bucket, output_key, "summary")]

PocHandlerInit ==
    /\ NothingRuns
    /\ LET dirs == {<< >>, UploadsPrefix, UploadsPrefix \o <<"a", "/">>,
                    <<"r", "e", "p", "o", "r", "t", "s", "/">>}
           stems == {<<"d", "o", "c", "1">>, <<"d", "o", "c", "2">>,
                     <<"d", "o", "c", "1", ".", "t", "x", "t", ".", "v", "2">>}
           keys == {d \o n \o e : d \in dirs, n \in stems,
                                  e \in {DotTxt, DotPdf, DotMd, << >>}}
       IN  probe \in {Probe("poc_handler", [key |-> k, answered |-> a], NoResult) :
                         k \in keys \cup {<< >>}, a \in BOOLEAN}

ApplyPocHandler ==
    /\ probe.op = "poc_handler"
    /\ probe.out = NoResult
    /\ probe' = [probe EXCEPT !.out = poc_handler(probe.in.key, probe.in.answered)]
    /\ UNCHANGED <<stack, storeVars, sfnVars>>

PocHandlerSpec == PocHandlerInit /\ [][ApplyPocHandler]_vars

\* C30: the POC handler never overwrites its input document: for every key
\* it processes, the key it writes the summary to differs from the input
\* key, and the document is still at its key afterwards.
C30_InputNeverOverwritten ==
    probe.op = "poc_handler" /\ probe.out # NoResult
    /\ probe.out.status = "SUCCESS" =>
        /\ probe.out.output # probe.in.key
        /\ probe.out.objects[probe.in.key] = "document"

=============================================================================
